---- MODULE Spec2Model ----
(***************************************************************************)
(* Model of the MeshToBody macro (MeshToBody_250608.py and                 *)
(* MeshToBody_250611.py): run_mesh_to_solid_macro, the mesh evaluation     *)
(* functions and batch_convert_meshes, as a state machine over the host    *)
(* document, the GUI selection and the undo transaction.                   *)
(*                                                                         *)
(* Host calls are modelled by their documented effect: addObject and       *)
(* removeObject change the set of objects of the document, openTransaction *)
(* records the document, abortTransaction restores the document recorded   *)
(* by the open transaction, commitTransaction closes it.  A host call that *)
(* may raise is a nondeterministic choice between its effect and the       *)
(* exception.                                                              *)
(***************************************************************************)
EXTENDS Integers, Sequences, FiniteSets, TLC

\* Number of mesh objects (Mesh::Feature) in the document.
NumMeshes == 2

VARIABLES
    version,                \* "250608" or "250611": which file runs
    entry,                  \* "macro": run_mesh_to_solid_macro(); "batch": batch_convert_meshes()
    auto_mode,              \* parameter of run_mesh_to_solid_macro / batch_convert_meshes
    auto_repair,            \* parameter of run_mesh_to_solid_macro
    doc,                    \* FreeCAD.ActiveDocument: the set of object names it holds
    selection,              \* FreeCADGui.Selection: sequence of selected base objects
    tx,                     \* the document's transaction: "none" or "open"
    txSnap,                 \* the document as it was when the open transaction was opened
    pc,                     \* position in the code
    locs,                   \* which of shape_obj, solid_obj, refined_obj are in locals()
    selected_mesh,          \* local selected_mesh (0: unbound)
    initial_solid_created,  \* local initial_solid_created
    progress_dialog,        \* local progress_dialog is not None
    user_choice,            \* local user_choice
    result,                 \* result = dialog.exec_() of the evaluation dialog (-1: not shown)
    exc,                    \* the exception in flight or last raised: "none", "host", "ValueError"
    after,                  \* what follows the finally block: "return", "fall"
    ret,                    \* the run's return value: "unset", "True", "False", "None"
    ui,                     \* GUI elements shown during the current run
    console,                \* console messages printed during the current run
    calls,                  \* transaction calls made during the current run
    trace,                  \* conversion steps completed during the current run, in order
    refined_shape,          \* refined_obj.Shape after doc.recompute(): does it exist, is it valid
    repair,                 \* attempt_mesh_repair during the current run: called, rewrote
                            \* obj.Mesh, and what the copy answered when evaluated again
    quality,                \* the mesh's answers to isSolid/hasNonManifolds/hasSelfIntersections
    docBefore,              \* the document when the current run was entered
    mesh_objects,           \* batch_convert_meshes: the objects still to convert
    success_count,          \* batch_convert_meshes: success_count
    batch                   \* batch_convert_meshes: bookkeeping of the calls it made

vars == << version, entry, auto_mode, auto_repair, doc, selection, tx, txSnap, pc, locs,
           selected_mesh, initial_solid_created, progress_dialog, user_choice, result,
           exc, after, ret, ui, console, calls, trace, refined_shape, repair, quality, docBefore,
           mesh_objects, success_count, batch >>

cfgVars == << version, entry, auto_mode, auto_repair >>
batchVars == << mesh_objects, success_count, batch >>

----------------------------------------------------------------------------
\* Objects of the document.  Base objects 1..NumMeshes are meshes (their
\* Mesh attribute is a Mesh.Mesh); FakeMesh has a Mesh attribute that is not
\* a Mesh.Mesh; Plain has no Mesh attribute.

Meshes == 1 .. NumMeshes
FakeMesh == NumMeshes + 1
Plain == NumMeshes + 2
Objs == 1 .. (NumMeshes + 2)

\* The name of an object: base_name + suffix; a base object has suffix "".
Name(b, s) == << b, s >>

\* hasattr(obj, 'Mesh')
HasMeshAttr(b) == b \in Meshes \/ b = FakeMesh

\* hasattr(obj, 'Mesh') and isinstance(obj.Mesh, Mesh.Mesh)
IsMesh(b) == HasMeshAttr(b) /\ b \in Meshes

\* The names of the three intermediate objects and of the two results.
IntermediateSuffix == [ shape_obj |-> "_shape", solid_obj |-> "_solid",
                        refined_obj |-> "_solid_refined" ]
ResultSuffixes == { "_solid_simple", "_Body" }
CreatedSuffixes == { "_shape", "_solid", "_solid_refined" } \cup ResultSuffixes

Quality == [ known : {TRUE}, is_solid : BOOLEAN, has_non_manifolds : BOOLEAN,
             has_self_intersections : BOOLEAN ]
NoQuality == [ known |-> FALSE, is_solid |-> FALSE, has_non_manifolds |-> FALSE,
               has_self_intersections |-> FALSE ]

NoShape == [ computed |-> FALSE, exists |-> FALSE, valid |-> FALSE ]
NoCalls == [ open |-> 0, abort |-> 0, commit |-> 0 ]
NoRepair == [ called |-> FALSE, rewrote |-> FALSE, copy |-> NoQuality ]
NoBatch == [ selected |-> << >>, called |-> << >>, trues |-> 0 ]

\* Ascending sequence of the elements of a set of numbers.
RECURSIVE SeqOf(_)
SeqOf(S) == IF S = {} THEN << >>
            ELSE LET m == CHOOSE x \in S : \A y \in S : x <= y
                 IN << m >> \o SeqOf(S \ {m})

----------------------------------------------------------------------------
Init ==
    /\ version \in { "250608", "250611" }
    /\ entry \in { "macro", "batch" }
    /\ auto_mode \in BOOLEAN
    /\ auto_repair \in BOOLEAN
    \* 250608 has one entry point, without parameters: it is interactive.
    /\ version = "250608" => entry = "macro" /\ ~auto_mode /\ ~auto_repair
    \* batch_convert_meshes leaves auto_repair at its default.
    /\ entry = "batch" => auto_repair
    /\ doc = { Name(b, "") : b \in Objs }
    /\ selection \in { SeqOf(S) : S \in SUBSET Objs }
    /\ tx = "none"
    /\ txSnap = {}
    /\ pc = IF entry = "batch" THEN "batch" ELSE "main"
    /\ locs = {}
    /\ selected_mesh = 0
    /\ initial_solid_created = FALSE
    /\ progress_dialog = FALSE
    /\ user_choice = "unset"
    /\ result = -1
    /\ exc = "none"
    /\ after = "fall"
    /\ ret = "unset"
    /\ ui = {}
    /\ console = {}
    /\ calls = NoCalls
    /\ trace = << >>
    /\ refined_shape = NoShape
    /\ repair = NoRepair
    /\ quality = NoQuality
    /\ docBefore = doc
    /\ mesh_objects = << >>
    /\ success_count = 0
    /\ batch = NoBatch

----------------------------------------------------------------------------
\* Host transaction calls.

\* doc.openTransaction("Mesh to Solid Conversion")
openTransaction ==
    /\ tx' = "open"
    /\ txSnap' = doc
    /\ calls' = [ calls EXCEPT !.open = @ + 1 ]

\* doc.abortTransaction(): the document goes back to what it was when the
\* transaction was opened.
abortTransaction ==
    /\ doc' = IF tx = "open" THEN txSnap ELSE doc
    /\ tx' = "none"
    /\ calls' = [ calls EXCEPT !.abort = @ + 1 ]

\* doc.commitTransaction()
commitTransaction ==
    /\ tx' = "none"
    /\ calls' = [ calls EXCEPT !.commit = @ + 1 ]

\* Entering run_mesh_to_solid_macro: fresh locals, nothing shown or printed yet.
EnterRun ==
    /\ pc' = "open"
    /\ locs' = {}
    /\ selected_mesh' = 0
    /\ initial_solid_created' = FALSE
    /\ progress_dialog' = FALSE
    /\ user_choice' = "unset"
    /\ result' = -1
    /\ exc' = "none"
    /\ after' = "fall"
    /\ ret' = "unset"
    /\ ui' = {}
    /\ console' = {}
    /\ calls' = NoCalls
    /\ trace' = << >>
    /\ refined_shape' = NoShape
    /\ repair' = NoRepair
    /\ quality' = NoQuality
    /\ docBefore' = doc

\* What the run returns where 250611 says "return False" and 250608 "return".
ReturnFalse == IF version = "250608" THEN "None" ELSE "False"

\* An exception raised inside the try block: control goes to the except clause.
Raise(kind) ==
    /\ pc' = "except"
    /\ exc' = kind

\* An exception raised outside the try block, or in the finally block: it
\* leaves run_mesh_to_solid_macro (and batch_convert_meshes) uncaught.
Escape ==
    /\ pc' = "escaped"
    /\ exc' = "host"
    /\ ret' = "unset"

\* An early return that forgets doc.abortTransaction().
EarlyExit_NoAbort ==
    /\ UNCHANGED << doc, tx, calls >>
    /\ ret' = ReturnFalse
    /\ after' = "return"
    /\ pc' = "finally"

\* "doc.abortTransaction(); return False" inside the try block: the finally
\* block runs before the function returns.
EarlyExit ==
    /\ abortTransaction
    /\ ret' = ReturnFalse
    /\ after' = "return"
    /\ pc' = "finally"

----------------------------------------------------------------------------
\* The call of run_mesh_to_solid_macro at the end of the file.
Main ==
    /\ pc = "main"
    /\ EnterRun
    /\ UNCHANGED << cfgVars, doc, selection, tx, txSnap, batchVars >>

\* doc = FreeCAD.ActiveDocument; doc.openTransaction(...): before the try block.
OpenTransaction ==
    /\ pc = "open"
    /\ \E raises \in BOOLEAN :
         IF raises
         THEN /\ Escape
              /\ UNCHANGED << tx, txSnap, calls >>
         ELSE /\ openTransaction
              /\ pc' = "get_selection"
              /\ UNCHANGED << exc, ret >>
    /\ UNCHANGED << cfgVars, result, doc, selection, locs, selected_mesh, initial_solid_created,
                    progress_dialog, user_choice, after, ui, console, trace,
                    refined_shape, repair, quality, docBefore, batchVars >>

\* selection = getSelection(); if not selection: ...; selected_mesh = selection[0]
GetSelection ==
    /\ pc = "get_selection"
    /\ IF selection = << >>
       THEN /\ EarlyExit
            /\ ui' = IF auto_mode THEN ui ELSE ui \cup { "QMessageBox.warning" }
            /\ console' = IF auto_mode THEN console \cup { "error: no mesh selected" }
                          ELSE console
            /\ UNCHANGED selected_mesh
       ELSE /\ selected_mesh' = Head(selection)
            /\ pc' = "check_mesh"
            /\ UNCHANGED << doc, tx, calls, ret, after, ui, console >>
    /\ UNCHANGED << cfgVars, result, selection, txSnap, locs, initial_solid_created,
                    progress_dialog, user_choice, exc, trace, refined_shape, repair,
                    quality, docBefore, batchVars >>

\* if not hasattr(selected_mesh, 'Mesh') or not isinstance(selected_mesh.Mesh, Mesh.Mesh)
CheckMesh ==
    /\ pc = "check_mesh"
    /\ IF ~IsMesh(selected_mesh)
       THEN /\ EarlyExit
            /\ ui' = IF auto_mode THEN ui ELSE ui \cup { "QMessageBox.warning" }
            /\ console' = IF auto_mode THEN console \cup { "error: not a mesh" }
                          ELSE console
       ELSE /\ pc' = "evaluate"
            /\ UNCHANGED << doc, tx, calls, ret, after, ui, console >>
    /\ UNCHANGED << cfgVars, result, selection, txSnap, locs, selected_mesh,
                    initial_solid_created, progress_dialog, user_choice, exc, trace,
                    refined_shape, repair, quality, docBefore, batchVars >>

----------------------------------------------------------------------------
\* Mesh evaluation.

\* The results a QDialog can finish with: 0 when it is closed or rejected
\* without a button, 1, 2, 3 from dialog.done(n).
DialogResults == { 0, 1, 2, 3 }

\* A mapping that tests for the repair and cancel buttons and proceeds otherwise.
ChoiceOf_DefaultProceed(res) ==
    IF res = 2 THEN "repair"
    ELSE IF res = 3 THEN "cancel"
    ELSE "proceed"

\* if result == 1: "proceed" elif result == 2: "repair" else: "cancel"
ChoiceOf(res) ==
    IF res = 1 THEN "proceed"
    ELSE IF res = 2 THEN "repair"
    ELSE "cancel"

\* The mesh is solid, has no non-manifolds and no self-intersections.
Clean(q) == q.is_solid /\ ~q.has_non_manifolds /\ ~q.has_self_intersections

\* attempt_mesh_repair returning True once a repair was attempted, without
\* looking at what the copy answers.
attempt_mesh_repair_NoRecheck(has_non_manifolds, has_self_intersections, copy, fault) ==
    LET repair_attempted == has_non_manifolds \/ has_self_intersections
    IN  IF fault = "copy"
        THEN [ success |-> FALSE, rewrote |-> FALSE, error |-> TRUE ]
        ELSE IF ~repair_attempted
        THEN [ success |-> FALSE, rewrote |-> FALSE, error |-> FALSE ]
        ELSE IF fault = "reeval"
        THEN [ success |-> FALSE, rewrote |-> TRUE, error |-> TRUE ]
        ELSE [ success |-> TRUE, rewrote |-> TRUE, error |-> FALSE ]

\* attempt_mesh_repair(mesh_obj, has_non_manifolds, has_self_intersections):
\* copy is what the copy of the mesh answers when it is evaluated again,
\* fault is where a host call of it raises ("no", "copy", "reeval").
\* success: its return value; rewrote: mesh_obj.Mesh was assigned.
attempt_mesh_repair(has_non_manifolds, has_self_intersections, copy, fault) ==
    LET repair_attempted == has_non_manifolds \/ has_self_intersections
    IN  IF fault = "copy"
        THEN [ success |-> FALSE, rewrote |-> FALSE, error |-> TRUE ]
        ELSE IF ~repair_attempted
        THEN [ success |-> FALSE, rewrote |-> FALSE, error |-> FALSE ]
        ELSE IF fault = "reeval"
        THEN [ success |-> FALSE, rewrote |-> TRUE, error |-> TRUE ]
        ELSE [ success |-> Clean(copy), rewrote |-> TRUE, error |-> FALSE ]

\* 250608 evaluate_mesh(selected_mesh): the selection is reset to the mesh,
\* Mesh_EvaluateSolid runs, and the user answers the dialog.
evaluate_mesh ==
    /\ pc = "evaluate"
    /\ version = "250608"
    /\ selection' = << selected_mesh >>
    /\ \E raises \in BOOLEAN, res \in DialogResults :
         IF raises
         THEN /\ Raise("host")
              /\ ui' = ui \cup { "Mesh_EvaluateSolid" }
              /\ UNCHANGED << user_choice, result >>
         ELSE /\ ui' = ui \cup { "Mesh_EvaluateSolid", "QDialog" }
              /\ result' = res
              /\ user_choice' = ChoiceOf(res)
              /\ pc' = "choice"
              /\ UNCHANGED exc
    /\ UNCHANGED << cfgVars, doc, tx, txSnap, locs, selected_mesh, initial_solid_created,
                    progress_dialog, after, ret, console, calls, trace, refined_shape,
                    repair, quality, docBefore, batchVars >>

\* 250611 evaluate_mesh_with_options(selected_mesh, auto_mode=False): the
\* mesh is evaluated, the dialog shows the answers and the user chooses.
evaluate_mesh_with_options ==
    /\ pc = "evaluate"
    /\ version = "250611"
    /\ ~auto_mode
    /\ \E raises \in BOOLEAN, q \in Quality, res \in DialogResults :
         IF raises
         THEN /\ Raise("host")
              /\ UNCHANGED << ui, user_choice, result, quality >>
         ELSE /\ quality' = q
              /\ ui' = ui \cup { "QDialog" }
              /\ result' = res
              /\ user_choice' = ChoiceOf(res)
              /\ pc' = "choice"
              /\ UNCHANGED exc
    /\ UNCHANGED << cfgVars, doc, selection, tx, txSnap, locs, selected_mesh,
                    initial_solid_created, progress_dialog, after, ret, console, calls,
                    trace, refined_shape, repair, docBefore, batchVars >>

\* 250611 evaluate_mesh_with_options(selected_mesh, auto_mode=True), that is
\* evaluate_mesh_automated(selected_mesh), with its call of attempt_mesh_repair.
evaluate_mesh_automated ==
    /\ pc = "evaluate"
    /\ version = "250611"
    /\ auto_mode
    /\ \E raises \in BOOLEAN, q \in Quality, copy \in Quality,
          fault \in { "no", "copy", "reeval" } :
         IF raises
         THEN /\ console' = console \cup { "error: mesh evaluation" }
              /\ user_choice' = "cancel"
              /\ UNCHANGED << quality, repair >>
         ELSE /\ quality' = q
              /\ IF Clean(q)
                 THEN /\ console' = console \cup { "evaluation", "decision: clean" }
                      /\ user_choice' = "proceed"
                      /\ UNCHANGED repair
                 ELSE IF q.is_solid
                 THEN LET r == attempt_mesh_repair(q.has_non_manifolds,
                                                   q.has_self_intersections, copy, fault)
                      IN  /\ repair' = [ called |-> TRUE, rewrote |-> r.rewrote,
                                         copy |-> IF r.rewrote /\ ~r.error THEN copy
                                                  ELSE NoQuality ]
                          /\ console' = console
                                \cup { "evaluation", "decision: attempting repair" }
                                \cup (IF r.error THEN { "error: mesh repair" } ELSE {})
                                \cup (IF r.success THEN { "repair: successful" }
                                      ELSE { "repair: failed" })
                          /\ user_choice' = IF r.success THEN "proceed" ELSE "repair"
                 ELSE /\ console' = console \cup { "evaluation", "decision: not solid" }
                      /\ user_choice' = "repair"
                      /\ UNCHANGED repair
    /\ pc' = "choice"
    /\ UNCHANGED << cfgVars, result, doc, selection, tx, txSnap, locs, selected_mesh,
                    initial_solid_created, progress_dialog, exc, after, ret, ui, calls,
                    trace, refined_shape, docBefore, batchVars >>

\* if user_choice == "repair": ... elif user_choice == "cancel": ...
HandleChoice ==
    /\ pc = "choice"
    /\ user_choice \in { "repair", "cancel" }
    /\ EarlyExit
    /\ ui' = IF user_choice = "repair" /\ ~auto_mode
             THEN ui \cup { "Mesh_Evaluation" } ELSE ui
    /\ console' = IF ~auto_mode THEN console
                  ELSE IF user_choice = "repair"
                  THEN console \cup { "manual repair required" }
                  ELSE console \cup { "cancelled" }
    /\ UNCHANGED << cfgVars, result, selection, txSnap, locs, selected_mesh,
                    initial_solid_created, progress_dialog, user_choice, exc, trace,
                    refined_shape, repair, quality, docBefore, batchVars >>

\* StartConversion showing the progress dialog whatever auto_mode is.
StartConversion_AlwaysProgress ==
    /\ pc = "choice"
    /\ user_choice \notin { "repair", "cancel" }
    /\ progress_dialog' = TRUE
    /\ ui' = ui \cup { "QProgressDialog" }
    /\ console' = IF version = "250611" THEN console \cup { "starting conversion" }
                  ELSE console
    /\ pc' = "shape"
    /\ UNCHANGED << cfgVars, result, doc, selection, tx, txSnap, locs, selected_mesh,
                    initial_solid_created, user_choice, exc, after, ret, calls, trace,
                    refined_shape, repair, quality, docBefore, batchVars >>

\* Proceed with conversion: the progress dialog (not in auto mode), base_name.
StartConversion ==
    /\ pc = "choice"
    /\ user_choice \notin { "repair", "cancel" }
    /\ progress_dialog' = ~auto_mode
    /\ ui' = IF auto_mode THEN ui ELSE ui \cup { "QProgressDialog" }
    /\ console' = IF version = "250611" THEN console \cup { "starting conversion" }
                  ELSE console
    /\ pc' = "shape"
    /\ UNCHANGED << cfgVars, result, doc, selection, tx, txSnap, locs, selected_mesh,
                    initial_solid_created, user_choice, exc, after, ret, calls, trace,
                    refined_shape, repair, quality, docBefore, batchVars >>

----------------------------------------------------------------------------
\* The conversion steps of the try block.

\* obj = doc.addObject(type, base_name + suffix) followed by the statements
\* that fill the object in.  fault "before": addObject raises; "after": a
\* later statement of the step raises, the object is already in the document
\* and bound to its local.
AddStep(local, suffix, step, next) ==
    \E fault \in { "no", "before", "after" } :
        /\ IF fault = "before"
           THEN UNCHANGED << doc, locs >>
           ELSE /\ doc' = doc \cup { Name(selected_mesh, suffix) }
                /\ locs' = locs \cup { local }
        /\ IF fault = "no"
           THEN /\ trace' = Append(trace, step)
                /\ pc' = next
                /\ UNCHANGED exc
           ELSE /\ Raise("host")
                /\ UNCHANGED trace

\* shape_obj = doc.addObject('Part::Feature', base_name + "_shape"); makeShapeFromMesh
MakeShape ==
    /\ pc = "shape"
    /\ AddStep("shape_obj", "_shape", "shape", "solid")
    /\ UNCHANGED << cfgVars, result, selection, tx, txSnap, selected_mesh, initial_solid_created,
                    progress_dialog, user_choice, after, ret, ui, console, calls,
                    refined_shape, repair, quality, docBefore, batchVars >>

\* solid_obj = doc.addObject("Part::Feature", base_name + "_solid"); Part.Solid(Part.Shell(...))
MakeSolid ==
    /\ pc = "solid"
    /\ AddStep("solid_obj", "_solid", "solid", "refine")
    /\ UNCHANGED << cfgVars, result, selection, tx, txSnap, selected_mesh, initial_solid_created,
                    progress_dialog, user_choice, after, ret, ui, console, calls,
                    refined_shape, repair, quality, docBefore, batchVars >>

\* refined_obj = doc.addObject("Part::Refine", base_name + "_solid_refined"); Source
MakeRefine ==
    /\ pc = "refine"
    /\ AddStep("refined_obj", "_solid_refined", "refine", "recompute")
    /\ UNCHANGED << cfgVars, result, selection, tx, txSnap, selected_mesh, initial_solid_created,
                    progress_dialog, user_choice, after, ret, ui, console, calls,
                    refined_shape, repair, quality, docBefore, batchVars >>

\* doc.recompute(): the host computes the refined shape, or raises.
Recompute ==
    /\ pc = "recompute"
    /\ \E raises \in BOOLEAN, exists \in BOOLEAN, valid \in BOOLEAN :
         IF raises
         THEN /\ Raise("host")
              /\ UNCHANGED << trace, refined_shape >>
         ELSE /\ refined_shape' = [ computed |-> TRUE, exists |-> exists,
                                    valid |-> exists /\ valid ]
              /\ trace' = Append(trace, "recompute")
              /\ pc' = "validate"
              /\ UNCHANGED exc
    /\ UNCHANGED << cfgVars, result, doc, selection, tx, txSnap, locs, selected_mesh,
                    initial_solid_created, progress_dialog, user_choice, after, ret, ui,
                    console, calls, repair, quality, docBefore, batchVars >>

\* The test without its isValid() half.
RefinedOk_ExistsOnly == refined_shape.exists

\* refined_obj.Shape and refined_obj.Shape.isValid()
RefinedOk == refined_shape.exists /\ refined_shape.valid

\* if refined_obj.Shape and refined_obj.Shape.isValid(): ... else: raise ValueError(...)
Validate ==
    /\ pc = "validate"
    /\ IF RefinedOk
       THEN /\ pc' = "simple_copy"
            /\ UNCHANGED exc
       ELSE Raise("ValueError")
    /\ UNCHANGED << cfgVars, result, doc, selection, tx, txSnap, locs, selected_mesh,
                    initial_solid_created, progress_dialog, user_choice, after, ret, ui,
                    console, calls, trace, refined_shape, repair, quality, docBefore,
                    batchVars >>

\* simple_copy_obj = doc.addObject("Part::Feature", base_name + "_solid_simple"); Shape
SimpleCopy ==
    /\ pc = "simple_copy"
    /\ \E fault \in { "no", "before", "after" } :
        /\ doc' = IF fault = "before" THEN doc
                  ELSE doc \cup { Name(selected_mesh, "_solid_simple") }
        /\ IF fault = "no"
           THEN /\ trace' = Append(trace, "simple_copy")
                /\ pc' = "body"
                /\ UNCHANGED exc
           ELSE /\ Raise("host")
                /\ UNCHANGED trace
    /\ UNCHANGED << cfgVars, result, selection, tx, txSnap, locs, selected_mesh,
                    initial_solid_created, progress_dialog, user_choice, after, ret, ui,
                    console, calls, refined_shape, repair, quality, docBefore, batchVars >>

\* body_obj = doc.addObject("PartDesign::Body", base_name + "_Body"); BaseFeature;
\* initial_solid_created = True; the try block is left normally.
CreateBody ==
    /\ pc = "body"
    /\ \E fault \in { "no", "before", "after" } :
        /\ doc' = IF fault = "before" THEN doc
                  ELSE doc \cup { Name(selected_mesh, "_Body") }
        /\ IF fault = "no"
           THEN /\ trace' = Append(trace, "body")
                /\ initial_solid_created' = TRUE
                /\ console' = IF version = "250611" THEN console \cup { "created body" }
                              ELSE console
                /\ after' = "fall"
                /\ pc' = "finally"
                /\ UNCHANGED exc
           ELSE /\ Raise("host")
                /\ UNCHANGED << trace, initial_solid_created, console, after >>
    /\ UNCHANGED << cfgVars, result, selection, tx, txSnap, locs, selected_mesh, progress_dialog,
                    user_choice, ret, ui, calls, refined_shape, repair, quality,
                    docBefore, batchVars >>

----------------------------------------------------------------------------
\* except, finally, and the code after the try statement.

\* The run returns v to its caller (counted for the batch's bookkeeping).
CountReturn(v) ==
    batch' = IF v = "True" THEN [ batch EXCEPT !.trues = @ + 1 ] ELSE batch

\* ExceptHandler without its doc.abortTransaction() call.
ExceptHandler_NoAbort ==
    /\ pc = "except"
    /\ ui' = IF version = "250608" \/ ~auto_mode
             THEN ui \cup { "QMessageBox.critical" } ELSE ui
    /\ console' = IF version = "250608" \/ auto_mode
                  THEN console \cup { "error: conversion" } ELSE console
    /\ ret' = ReturnFalse
    /\ after' = "return"
    /\ pc' = "finally"
    /\ UNCHANGED << cfgVars, result, doc, tx, calls, selection, txSnap, locs,
                    selected_mesh, initial_solid_created, progress_dialog, user_choice,
                    exc, trace, refined_shape, repair, quality, docBefore, batchVars >>

\* ExceptHandler reporting the error nowhere.
ExceptHandler_Silent ==
    /\ pc = "except"
    /\ abortTransaction
    /\ ret' = ReturnFalse
    /\ after' = "return"
    /\ pc' = "finally"
    /\ UNCHANGED << cfgVars, result, ui, console, selection, txSnap, locs, selected_mesh,
                    initial_solid_created, progress_dialog, user_choice, exc, trace,
                    refined_shape, repair, quality, docBefore, batchVars >>

\* except Exception as e: close_progress_dialog; doc.abortTransaction();
\* report the error; return False.  The finally block runs before the return.
ExceptHandler ==
    /\ pc = "except"
    /\ abortTransaction
    /\ ui' = IF version = "250608" \/ ~auto_mode
             THEN ui \cup { "QMessageBox.critical" } ELSE ui
    /\ console' = IF version = "250608" \/ auto_mode
                  THEN console \cup { "error: conversion" } ELSE console
    /\ ret' = ReturnFalse
    /\ after' = "return"
    /\ pc' = "finally"
    /\ UNCHANGED << cfgVars, result, selection, txSnap, locs, selected_mesh,
                    initial_solid_created, progress_dialog, user_choice, exc, trace,
                    refined_shape, repair, quality, docBefore, batchVars >>

\* A cleanup that forgets the refined object.
CleanupOrder_NoRefined == << "shape_obj", "solid_obj" >>

\* The order in which the finally block looks at the intermediate objects.
CleanupOrder == << "shape_obj", "solid_obj", "refined_obj" >>

\* The names removed by the first k statements of the finally block:
\* if 'x' in locals() and doc.getObject(x.Name): doc.removeObject(x.Name)
Removed(k) ==
    { Name(selected_mesh, IntermediateSuffix[CleanupOrder[j]]) :
        j \in { i \in 1 .. k : CleanupOrder[i] \in locs } }

\* The original removed whenever it is in the document, created Body or not.
RemoveOriginal_Always(d) == selected_mesh # 0 /\ Name(selected_mesh, "") \in d

\* if initial_solid_created and doc.getObject(selected_mesh.Name)
RemoveOriginal(d) == initial_solid_created /\ Name(selected_mesh, "") \in d

\* finally: the cleanup of the intermediate objects and of the original mesh.
\* fail = 0: no host call raises; fail = j: the j-th statement raises (it
\* makes a host call only when its local is bound, the fourth only when
\* initial_solid_created), and the exception leaves the function.
Finally ==
    /\ pc = "finally"
    /\ \E fail \in 0 .. (Len(CleanupOrder) + 1) :
        /\ fail \in 1 .. Len(CleanupOrder) => CleanupOrder[fail] \in locs
        /\ fail = Len(CleanupOrder) + 1 => initial_solid_created
        /\ IF fail = 0
           THEN LET d == doc \ Removed(Len(CleanupOrder))
                IN  /\ doc' = IF RemoveOriginal(d) THEN d \ { Name(selected_mesh, "") }
                              ELSE d
                    /\ console' = IF RemoveOriginal(d) THEN console
                                  ELSE console \cup { "original mesh retained" }
                    /\ pc' = IF after = "return" THEN "returned" ELSE "commit"
                    /\ IF after = "return" THEN CountReturn(ret) ELSE UNCHANGED batch
                    /\ UNCHANGED << exc, ret >>
           ELSE /\ doc' = doc \ Removed(fail - 1)
                /\ Escape
                /\ UNCHANGED << console, batch >>
    /\ UNCHANGED << cfgVars, result, selection, tx, txSnap, locs, selected_mesh,
                    initial_solid_created, progress_dialog, user_choice, after, ui,
                    calls, trace, refined_shape, repair, quality, docBefore,
                    mesh_objects, success_count >>

\* doc.commitTransaction(), after the try statement.
Commit ==
    /\ pc = "commit"
    /\ \E raises \in BOOLEAN :
         IF raises
         THEN /\ Escape
              /\ UNCHANGED << tx, calls >>
         ELSE /\ commitTransaction
              /\ pc' = "final"
              /\ UNCHANGED << exc, ret >>
    /\ UNCHANGED << cfgVars, result, doc, selection, txSnap, locs, selected_mesh,
                    initial_solid_created, progress_dialog, user_choice, after, ui,
                    console, trace, refined_shape, repair, quality, docBefore,
                    batchVars >>

\* What the code after commitTransaction returns:
\* 250611: if initial_solid_created: ... return True; return False.  250608: None.
FinalValue ==
    IF version = "250608" THEN "None"
    ELSE IF initial_solid_created THEN "True" ELSE "False"

\* doc.recompute(); if initial_solid_created: close the progress dialog,
\* report the success; return.
FinalReturn ==
    /\ pc = "final"
    /\ \E raises \in BOOLEAN :
         IF raises
         THEN /\ Escape
              /\ UNCHANGED << ui, console, batch >>
         ELSE /\ ui' = IF initial_solid_created /\ ~auto_mode
                       THEN ui \cup { "QMessageBox.information" } ELSE ui
              /\ console' = IF initial_solid_created /\ auto_mode
                            THEN console \cup { "success" } ELSE console
              /\ ret' = FinalValue
              /\ CountReturn(FinalValue)
              /\ pc' = "returned"
              /\ UNCHANGED exc
    /\ UNCHANGED << cfgVars, result, doc, selection, tx, txSnap, locs, selected_mesh,
                    initial_solid_created, progress_dialog, user_choice, after, calls,
                    trace, refined_shape, repair, quality, docBefore, mesh_objects,
                    success_count >>

----------------------------------------------------------------------------
\* batch_convert_meshes (250611).

\* selection = getSelection(); mesh_objects = [obj for obj in selection if hasattr(obj, 'Mesh')]
BatchStart ==
    /\ pc = "batch"
    /\ LET objs == SelectSeq(selection, HasMeshAttr)
       IN  /\ mesh_objects' = objs
           /\ console' = IF objs = << >> THEN { "error: no mesh objects" }
                         ELSE { "batch conversion" }
           /\ pc' = IF objs = << >> THEN "done" ELSE "batch_loop"
    /\ success_count' = 0
    /\ batch' = [ batch EXCEPT !.selected = selection ]
    /\ UNCHANGED << cfgVars, result, doc, selection, tx, txSnap, locs, selected_mesh,
                    initial_solid_created, progress_dialog, user_choice, exc, after, ret,
                    ui, calls, trace, refined_shape, repair, quality, docBefore >>

\* for mesh_obj in mesh_objects: clearSelection(); addSelection(mesh_obj);
\* run_mesh_to_solid_macro(auto_mode=auto_mode)
BatchCall ==
    /\ pc = "batch_loop"
    /\ mesh_objects # << >>
    /\ selection' = << Head(mesh_objects) >>
    /\ mesh_objects' = Tail(mesh_objects)
    /\ batch' = [ batch EXCEPT !.called = Append(@, Head(mesh_objects)) ]
    /\ EnterRun
    /\ UNCHANGED << cfgVars, doc, tx, txSnap, success_count >>

\* BatchCollect counting every call, whatever it returned.
BatchCollect_CountAll ==
    /\ pc = "returned"
    /\ entry = "batch"
    /\ success_count' = success_count + 1
    /\ pc' = "batch_loop"
    /\ UNCHANGED << cfgVars, result, doc, selection, tx, txSnap, locs, selected_mesh,
                    initial_solid_created, progress_dialog, user_choice, exc, after, ret,
                    ui, console, calls, trace, refined_shape, repair, quality, docBefore,
                    mesh_objects, batch >>

\* if run_mesh_to_solid_macro(...): success_count += 1
BatchCollect ==
    /\ pc = "returned"
    /\ entry = "batch"
    /\ success_count' = IF ret = "True" THEN success_count + 1 ELSE success_count
    /\ pc' = "batch_loop"
    /\ UNCHANGED << cfgVars, result, doc, selection, tx, txSnap, locs, selected_mesh,
                    initial_solid_created, progress_dialog, user_choice, exc, after, ret,
                    ui, console, calls, trace, refined_shape, repair, quality, docBefore,
                    mesh_objects, batch >>

\* The loop is over: "BATCH COMPLETE: success_count/len(mesh_objects) successful".
BatchComplete ==
    /\ pc = "batch_loop"
    /\ mesh_objects = << >>
    /\ pc' = "done"
    /\ UNCHANGED << cfgVars, result, doc, selection, tx, txSnap, locs, selected_mesh,
                    initial_solid_created, progress_dialog, user_choice, exc, after, ret,
                    ui, console, calls, trace, refined_shape, repair, quality, docBefore,
                    batchVars >>

----------------------------------------------------------------------------
Next ==
    \/ Main
    \/ OpenTransaction
    \/ GetSelection
    \/ CheckMesh
    \/ evaluate_mesh
    \/ evaluate_mesh_with_options
    \/ evaluate_mesh_automated
    \/ HandleChoice
    \/ StartConversion
    \/ MakeShape
    \/ MakeSolid
    \/ MakeRefine
    \/ Recompute
    \/ Validate
    \/ SimpleCopy
    \/ CreateBody
    \/ ExceptHandler
    \/ Finally
    \/ Commit
    \/ FinalReturn
    \/ BatchStart
    \/ BatchCall
    \/ BatchCollect
    \/ BatchComplete

Spec == Init /\ [][Next]_vars

----------------------------------------------------------------------------
\* Vocabulary of the properties.

\* The names the current run may create for its mesh.
CreatedNames(sufs) == { Name(b, x) : b \in Objs, x \in sufs }
IntermediateNames == CreatedNames({ "_shape", "_solid", "_solid_refined" })
ResultNames == CreatedNames(ResultSuffixes)

\* An exception raised in the try block was handled by the except clause.
Handled == exc # "none" /\ pc \in { "finally", "returned" }

\* The positions at which the current run has returned to its caller.
RunOver == { "returned", "batch_loop", "done" }

\* The original mesh of the current run.
Original == Name(selected_mesh, "")

\* C1: when a step inside the try block raises, abortTransaction is called,
\* commitTransaction is not, and when the macro returns the document holds
\* exactly the objects it held when the run began: the original mesh, and
\* no _shape, _solid, _solid_refined, _solid_simple or _Body object of the run.
C1_RollbackOnFailure ==
    /\ Handled => calls.abort = 1 /\ calls.commit = 0
    /\ (exc # "none" /\ pc = "returned") =>
          /\ doc = docBefore
          /\ Original \in doc
          /\ CreatedNames(CreatedSuffixes) \cap doc \subseteq docBefore

\* A run that failed at the Body creation, after the simple copy was added,
\* has returned.
C1_Witness ==
    /\ pc = "returned"
    /\ exc = "host"
    /\ trace = << "shape", "solid", "refine", "recompute", "simple_copy" >>
    /\ calls.abort = 1

\* C2: on every path by which the macro returns, none of the intermediate
\* objects _shape, _solid, _solid_refined is in the document, and on the
\* success path they are gone before commitTransaction is called.
C2_IntermediatesCleaned ==
    (pc \in { "returned", "commit", "final" } \/ calls.commit > 0)
        => IntermediateNames \cap doc = {}

\* A successful run: the three intermediates were added, the transaction is
\* committed and the run has returned.
C2_Witness ==
    /\ pc = "returned"
    /\ locs = { "shape_obj", "solid_obj", "refined_obj" }
    /\ calls.commit = 1
    /\ IntermediateNames \cap doc = {}

\* C3 as stated: whatever exception a host call raises at any point of a run
\* (openTransaction, evaluation, conversion, cleanup, commit, recompute), it
\* does not escape the macro, it is logged to the console and the transaction
\* is rolled back with abortTransaction.
C3_EveryExceptionCaught ==
    /\ pc # "escaped"
    /\ Handled => calls.abort = 1 /\ "error: conversion" \in console

\* C3 as amended: an exception raised inside the try block is caught by the
\* except clause, which calls abortTransaction once and reports the error:
\* on the console in 250608 and in auto mode, in a QMessageBox.critical in
\* 250608 and in interactive mode (so in 250611's interactive mode not on the
\* console).  An evaluation error in auto mode is caught by
\* evaluate_mesh_automated, logged, and the run aborts the transaction as for
\* "cancel".  Only an exception raised outside the try block (by
\* openTransaction, by the finally block, by commitTransaction or by the final
\* recompute) leaves the macro.
C3_TryBlockExceptionsCaught ==
    /\ Handled =>
          /\ calls.abort = 1
          /\ tx = "none"
          /\ "error: conversion" \in console <=> (version = "250608" \/ auto_mode)
          /\ "QMessageBox.critical" \in ui <=> (version = "250608" \/ ~auto_mode)
    /\ ("error: mesh evaluation" \in console /\ pc \in { "finally", "returned" }) =>
          /\ exc = "none"
          /\ user_choice = "cancel"
          /\ calls.abort = 1
    /\ (pc = "escaped" /\ calls.open = 1) =>
          \/ after = "return"
          \/ initial_solid_created

\* In 250611's interactive mode an invalid refined shape raised ValueError; the
\* run has returned after reporting it in a message box only.
C3_Witness ==
    /\ pc = "returned"
    /\ version = "250611"
    /\ ~auto_mode
    /\ exc = "ValueError"
    /\ "QMessageBox.critical" \in ui
    /\ "error: conversion" \notin console

\* C4: with auto_mode=True no dialog, message box, progress dialog or GUI
\* command is shown on any path; outcomes go to the console and the return
\* value only.
C4_AutoModeNoDialogs ==
    auto_mode => ui = {}

\* An automatic run that converted its mesh and returned True.
C4_Witness ==
    /\ auto_mode
    /\ pc = "returned"
    /\ ret = "True"
    /\ "success" \in console
    /\ ui = {}

\* C5 as stated: whether a repair is attempted is governed by auto_repair, so
\* with auto_repair=False attempt_mesh_repair is not called.
C5_AutoRepairGoverns ==
    repair.called => auto_repair

\* The PartDesign Body was created in the current run.
BodyCreated == \E i \in 1 .. Len(trace) : trace[i] = "body"

\* How many times run_mesh_to_solid_macro was called for object b by the batch.
TimesCalled(b) == Cardinality({ i \in 1 .. Len(batch.called) : batch.called[i] = b })

\* b is one of the objects selected when batch_convert_meshes was called.
WasSelected(b) == \E i \in 1 .. Len(batch.selected) : batch.selected[i] = b

\* C6: run_mesh_to_solid_macro (250611) returns True exactly when the Body was
\* created and commitTransaction was called, and False otherwise;
\* batch_convert_meshes calls it once for each selected object with a Mesh
\* attribute, with the selection reset to that object, and success_count is
\* the number of calls that returned True.
C6_ReturnValueAndBatchCount ==
    /\ (pc = "returned" /\ version = "250611") =>
          /\ ret \in { "True", "False" }
          /\ ret = "True" <=> (BodyCreated /\ calls.commit = 1)
    /\ (entry = "batch" /\ batch.called # << >>) =>
          selection = << batch.called[Len(batch.called)] >>
    /\ (entry = "batch" /\ pc \in { "batch_loop", "done" }) =>
          /\ success_count = batch.trues
          /\ success_count <= Len(batch.called)
    /\ (entry = "batch" /\ pc = "done") =>
          \A b \in Objs :
              TimesCalled(b) = IF WasSelected(b) /\ b # Plain THEN 1 ELSE 0

\* A batch over at least two objects is complete and one call returned True.
C6_Witness ==
    /\ entry = "batch"
    /\ pc = "done"
    /\ Len(batch.called) >= 2
    /\ success_count = 1
    /\ batch.trues = 1

C8_BodyOnlyAfterValidation ==
    /\ (ResultNames \cap (doc \ docBefore) # {} \/ pc \in { "simple_copy", "body" }) =>
          /\ Len(trace) >= 4
          /\ SubSeq(trace, 1, 4) = << "shape", "solid", "refine", "recompute" >>
          /\ refined_shape.exists
          /\ refined_shape.valid
    /\ (refined_shape.computed /\ ~(refined_shape.exists /\ refined_shape.valid)) =>
          /\ ResultNames \cap (doc \ docBefore) = {}
          /\ pc \in { "validate", "except", "finally", "escaped" } \cup RunOver
          /\ pc \in { "except", "finally" } \cup RunOver => exc = "ValueError"
          /\ pc \in { "finally", "escaped" } \cup RunOver =>
                calls.abort = 1 /\ calls.commit = 0

\* The refined shape exists but is invalid; the run raised ValueError and returned.
C8_Witness ==
    /\ pc = "returned"
    /\ refined_shape.computed
    /\ refined_shape.exists
    /\ ~refined_shape.valid
    /\ exc = "ValueError"
    /\ calls.abort = 1

\* C9: in interactive mode conversion starts only when the dialog finished
\* with result 1; result 2 gives "repair", which runs Mesh_Evaluation and
\* aborts the transaction; every other result, 0 included, gives "cancel" and
\* aborts the transaction; on "repair" and "cancel" no object is added to or
\* removed from the document.
C9_InteractiveChoiceMapping ==
    ~auto_mode =>
        /\ result # 1 =>
              /\ ~progress_dialog
              /\ locs = {}
              /\ trace = << >>
              /\ doc = docBefore
        /\ result = 1 => user_choice = "proceed"
        /\ (result = 2 /\ pc \in { "finally", "returned" }) =>
              /\ user_choice = "repair"
              /\ "Mesh_Evaluation" \in ui
              /\ calls.abort = 1
        /\ (result \in DialogResults \ { 1, 2 } /\ pc \in { "finally", "returned" }) =>
              /\ user_choice = "cancel"
              /\ "Mesh_Evaluation" \notin ui
              /\ calls.abort = 1

\* The dialog was closed without a button (result 0) and the run has returned.
C9_Witness ==
    /\ ~auto_mode
    /\ result = 0
    /\ pc = "returned"
    /\ user_choice = "cancel"
    /\ calls.abort = 1
    /\ doc = docBefore

\* C10: a run that opened the transaction and returned has closed it exactly
\* once, by abortTransaction or by commitTransaction, never both and never
\* twice; commitTransaction is reached only with initial_solid_created (the
\* "return False" after it is never taken); and a run of the batch never
\* opens a transaction while the previous run's is still open.
C10_TransactionBalance ==
    /\ calls.open <= 1
    /\ calls.abort + calls.commit <= 1
    /\ pc = "returned" =>
          /\ calls.open = 1
          /\ calls.abort + calls.commit = 1
          /\ tx = "none"
    /\ (calls.commit = 1 \/ pc \in { "commit", "final" }) => initial_solid_created
    /\ (pc = "returned" /\ calls.commit = 1) => ret # "False"
    /\ pc = "open" => tx = "none"

\* The batch enters its second run after a first run that committed.
C10_Witness ==
    /\ entry = "batch"
    /\ pc = "open"
    /\ Len(batch.called) = 2
    /\ batch.trues = 1
    /\ tx = "none"

\* The copy made by attempt_mesh_repair, where it was evaluated again, gave
\* the answers the original gave.
CopyAnswersAsOriginal == repair.copy.known => repair.copy = quality

\* evaluate_mesh_automated has returned in the current run.
AutoEvaluated == version = "250611" /\ auto_mode /\ user_choice # "unset"

\* C11: when the copy of the mesh answers isSolid, hasNonManifolds and
\* hasSelfIntersections as the original does, attempt_mesh_repair returns
\* False whenever has_non_manifolds or has_self_intersections is True; so
\* evaluate_mesh_automated returns "proceed" exactly for a mesh first
\* evaluated as solid without non-manifolds and self-intersections, "repair"
\* for every other mesh that evaluates without error, "cancel" only when the
\* evaluation raises, and "Automatic repair successful" is never printed.
C11_AutoConvertsOnlyCleanMeshes ==
    /\ \A q \in Quality, fault \in { "no", "copy", "reeval" } :
          (q.has_non_manifolds \/ q.has_self_intersections) =>
              ~attempt_mesh_repair(q.has_non_manifolds, q.has_self_intersections,
                                   q, fault).success
    /\ (AutoEvaluated /\ CopyAnswersAsOriginal) =>
          /\ user_choice = "proceed" <=> (quality.known /\ Clean(quality))
          /\ user_choice = "repair" <=> (quality.known /\ ~Clean(quality))
          /\ user_choice = "cancel" <=> "error: mesh evaluation" \in console
          /\ user_choice = "cancel" <=> ~quality.known
          /\ "repair: successful" \notin console
          /\ repair.called => (user_choice = "repair" /\ "repair: failed" \in console)

\* A solid mesh with non-manifolds went through attempt_mesh_repair, whose
\* copy answered as the original; the repair failed and the run has returned.
C11_Witness ==
    /\ AutoEvaluated
    /\ pc = "returned"
    /\ quality.is_solid
    /\ quality.has_non_manifolds
    /\ repair.called
    /\ repair.rewrote
    /\ repair.copy = quality
    /\ user_choice = "repair"

====
